---- MODULE Spec2Model ----
\* MinHeap<T> and MaxHeap<T> of minmaxheap_chaurasia.hpp, instantiated at T = int.
\* The backing std::vector<T> is a TLA+ sequence; the code's 0-based index k is
\* position k + 1 of the sequence (operator At).
EXTENDS Integers, Sequences, FiniteSets, Bags, TLC

\* ---------------------------------------------------------------- bounds
MaxVal == 3
MaxEnq == 5
MaxHint == 2
MaxFill == 4
MaxRaceEnq == 3
NumCallers == 2

Values == 1..MaxVal
Hints == (-MaxHint)..MaxHint
Kinds == {"min", "max"}

\* ------------------------------------------------- int and std::vector
INT_MAX == 2147483647

\* conversion of a size_type in 0 .. 2^32-1 to int (two's complement wrap)
ToInt(n) == IF n <= INT_MAX THEN n ELSE ((n - INT_MAX) - INT_MAX) - 2

size(d) == Len(d)
empty(d) == Len(d) = 0
At(d, k) == d[k + 1]
front(d) == d[1]
back(d) == d[Len(d)]
push_back(d, item) == Append(d, item)
pop_back(d) == SubSeq(d, 1, Len(d) - 1)
swap(d, i, j) == [d EXCEPT ![i + 1] = d[j + 1], ![j + 1] = d[i + 1]]

\* the outcome of one call: the exception thrown ("none" when it returns),
\* the value returned (<<>> for void or a throw) and the vector afterwards
Result(e, r, d) == [err |-> e, ret |-> r, data |-> d]

\* data.reserve(initialSize): the int argument is converted to size_type, so a
\* negative one becomes 2^64 + initialSize, which exceeds max_size() and makes
\* reserve throw std::length_error; otherwise the capacity is raised to it.
reserve(cap, initialSize) ==
    IF initialSize < 0
    THEN [err |-> "length_error", capacity |-> cap]
    ELSE [err |-> "none", capacity |-> IF initialSize > cap THEN initialSize ELSE cap]

\* capacity after push_back on a vector of n elements (doubling growth)
grow(cap, n) == IF n < cap THEN cap ELSE IF cap = 0 THEN 1 ELSE 2 * cap

\* ------------------------------------------------- execution of a call
\* The same member functions with their execution recorded: `acc` lists every
\* element access data[k] as <<k, data.size() at that moment>>, `swaps` every
\* std::swap(data[i], data[j]) as <<i, j>>, and `visits` the value of `index`
\* with the vector at every test of bubbleUp's loop condition and at every
\* entry of bubbleDown. `from` follows the elements: from[i] is the index the
\* element now at index i - 1 had in the vector the record started with.
Trace(e, d) ==
    [err |-> e, data |-> d, from |-> [i \in DOMAIN d |-> i - 1],
     acc |-> <<>>, swaps |-> <<>>, visits |-> <<>>]

access(t, ks) ==
    [t EXCEPT !.acc = @ \o [i \in 1..Len(ks) |-> <<ks[i], size(t.data)>>]]

swapped(t, i, j) ==
    [access(t, <<i, j>>) EXCEPT !.data = swap(@, i, j), !.from = swap(@, i, j),
                                !.swaps = Append(@, <<i, j>>)]

visit(t, index) ==
    [t EXCEPT !.visits = Append(@, [index |-> index, data |-> t.data])]

\* ---------------------------------------------------------------- MinHeap
\* slip: the loop returns after its first swap
MinHeap_bubbleUp_FirstSwapOnly(d, index) ==
    IF index > 0
    THEN LET parentIndex == (index - 1) \div 2
         IN  IF At(d, parentIndex) > At(d, index)
             THEN swap(d, parentIndex, index)
             ELSE d
    ELSE d

RECURSIVE MinHeap_bubbleUp(_, _)
MinHeap_bubbleUp(d, index) ==
    IF index > 0
    THEN LET parentIndex == (index - 1) \div 2
         IN  IF At(d, parentIndex) > At(d, index)
             THEN MinHeap_bubbleUp(swap(d, parentIndex, index), parentIndex)
             ELSE d
    ELSE d

\* slip: the right child is compared with data[index], not data[smallest]
RECURSIVE MinHeap_bubbleDown_RightVsIndex(_, _)
MinHeap_bubbleDown_RightVsIndex(d, index) ==
    LET leftChildIndex == 2 * index + 1
        rightChildIndex == 2 * index + 2
        afterLeft == IF leftChildIndex < ToInt(size(d))
                        /\ At(d, leftChildIndex) < At(d, index)
                     THEN leftChildIndex ELSE index
        smallest == IF rightChildIndex < ToInt(size(d))
                       /\ At(d, rightChildIndex) < At(d, index)
                    THEN rightChildIndex ELSE afterLeft
    IN  IF smallest # index
        THEN MinHeap_bubbleDown_RightVsIndex(swap(d, index, smallest), smallest)
        ELSE d

RECURSIVE MinHeap_bubbleDown(_, _)
MinHeap_bubbleDown(d, index) ==
    LET leftChildIndex == 2 * index + 1
        rightChildIndex == 2 * index + 2
        afterLeft == IF leftChildIndex < ToInt(size(d))
                        /\ At(d, leftChildIndex) < At(d, index)
                     THEN leftChildIndex ELSE index
        smallest == IF rightChildIndex < ToInt(size(d))
                       /\ At(d, rightChildIndex) < At(d, afterLeft)
                    THEN rightChildIndex ELSE afterLeft
    IN  IF smallest # index
        THEN MinHeap_bubbleDown(swap(d, index, smallest), smallest)
        ELSE d

MinHeap_enqueue(d, item) ==
    LET pushed == push_back(d, item)
    IN  Result("none", <<>>, MinHeap_bubbleUp(pushed, ToInt(size(pushed) - 1)))

\* slip: the emptiness test is size() <= 1
MinHeap_dequeue_ThrowsOnLast(d) ==
    IF size(d) <= 1
    THEN Result("out_of_range", <<>>, d)
    ELSE LET popped == pop_back([d EXCEPT ![1] = back(d)])
         IN  Result("none", <<>>, MinHeap_bubbleDown(popped, 0))

MinHeap_dequeue(d) ==
    IF empty(d)
    THEN Result("out_of_range", <<>>, d)
    ELSE LET popped == pop_back([d EXCEPT ![1] = back(d)])
         IN  IF ~empty(popped)
             THEN Result("none", <<>>, MinHeap_bubbleDown(popped, 0))
             ELSE Result("none", <<>>, popped)

\* slip: no emptiness test, a value-initialised T is returned
MinHeap_peek_NoEmptyCheck(d) ==
    IF empty(d)
    THEN Result("none", <<0>>, d)
    ELSE Result("none", <<front(d)>>, d)

\* slip: peek returns data.back()
MinHeap_peek_ReturnsBack(d) ==
    IF empty(d)
    THEN Result("out_of_range", <<>>, d)
    ELSE Result("none", <<back(d)>>, d)

MinHeap_peek(d) ==
    IF empty(d)
    THEN Result("out_of_range", <<>>, d)
    ELSE Result("none", <<front(d)>>, d)

MinHeap_getSize(d) == Result("none", <<ToInt(size(d))>>, d)

\* slip: returns data.size() converted to bool
MinHeap_isEmpty_SizeAsBool(d) == Result("none", <<size(d) # 0>>, d)

MinHeap_isEmpty(d) == Result("none", <<empty(d)>>, d)

\* slip: the upward comparison is >=, an equal parent is swapped too
RECURSIVE MinHeap_bubbleUpTrace_NonStrict(_, _)
MinHeap_bubbleUpTrace_NonStrict(t, index) ==
    LET v == visit(t, index)
    IN  IF index > 0
        THEN LET parentIndex == (index - 1) \div 2
                 r == access(v, <<parentIndex, index>>)
             IN  IF At(r.data, parentIndex) >= At(r.data, index)
                 THEN MinHeap_bubbleUpTrace_NonStrict(swapped(r, parentIndex, index), parentIndex)
                 ELSE r
        ELSE v

RECURSIVE MinHeap_bubbleUpTrace(_, _)
MinHeap_bubbleUpTrace(t, index) ==
    LET v == visit(t, index)
    IN  IF index > 0
        THEN LET parentIndex == (index - 1) \div 2
                 r == access(v, <<parentIndex, index>>)
             IN  IF At(r.data, parentIndex) > At(r.data, index)
                 THEN MinHeap_bubbleUpTrace(swapped(r, parentIndex, index), parentIndex)
                 ELSE r
        ELSE v

\* slip: after the swap the recursive call is made on index, not on smallest
RECURSIVE MinHeap_bubbleDownTrace_RecursesOnIndex(_, _)
MinHeap_bubbleDownTrace_RecursesOnIndex(t, index) ==
    LET v == visit(t, index)
        leftChildIndex == 2 * index + 1
        rightChildIndex == 2 * index + 2
        leftIn == leftChildIndex < ToInt(size(v.data))
        r1 == IF leftIn THEN access(v, <<leftChildIndex, index>>) ELSE v
        afterLeft == IF leftIn /\ At(v.data, leftChildIndex) < At(v.data, index)
                     THEN leftChildIndex ELSE index
        rightIn == rightChildIndex < ToInt(size(v.data))
        r2 == IF rightIn THEN access(r1, <<rightChildIndex, afterLeft>>) ELSE r1
        smallest == IF rightIn /\ At(v.data, rightChildIndex) < At(v.data, afterLeft)
                    THEN rightChildIndex ELSE afterLeft
    IN  IF smallest # index
        THEN MinHeap_bubbleDownTrace_RecursesOnIndex(swapped(r2, index, smallest), index)
        ELSE r2

RECURSIVE MinHeap_bubbleDownTrace(_, _)
MinHeap_bubbleDownTrace(t, index) ==
    LET v == visit(t, index)
        leftChildIndex == 2 * index + 1
        rightChildIndex == 2 * index + 2
        leftIn == leftChildIndex < ToInt(size(v.data))
        r1 == IF leftIn THEN access(v, <<leftChildIndex, index>>) ELSE v
        afterLeft == IF leftIn /\ At(v.data, leftChildIndex) < At(v.data, index)
                     THEN leftChildIndex ELSE index
        rightIn == rightChildIndex < ToInt(size(v.data))
        r2 == IF rightIn THEN access(r1, <<rightChildIndex, afterLeft>>) ELSE r1
        smallest == IF rightIn /\ At(v.data, rightChildIndex) < At(v.data, afterLeft)
                    THEN rightChildIndex ELSE afterLeft
    IN  IF smallest # index
        THEN MinHeap_bubbleDownTrace(swapped(r2, index, smallest), smallest)
        ELSE r2

MinHeap_enqueueTrace(d, item) ==
    LET pushed == push_back(d, item)
    IN  MinHeap_bubbleUpTrace(Trace("none", pushed), ToInt(size(pushed) - 1))

\* slip: the root is removed with data.erase(data.begin())
MinHeap_dequeueTrace_ErasesFront(d) ==
    IF empty(d)
    THEN Trace("out_of_range", d)
    ELSE LET erased == [Trace("none", d) EXCEPT !.data = Tail(@), !.from = Tail(@)]
         IN  IF ~empty(erased.data)
             THEN MinHeap_bubbleDownTrace(erased, 0)
             ELSE erased

MinHeap_dequeueTrace(d) ==
    IF empty(d)
    THEN Trace("out_of_range", d)
    ELSE LET moved == [access(Trace("none", d), <<0, size(d) - 1>>)
                          EXCEPT !.data = [@ EXCEPT ![1] = back(d)],
                                 !.from = [@ EXCEPT ![1] = size(d) - 1]]
             popped == [moved EXCEPT !.data = pop_back(@), !.from = pop_back(@)]
         IN  IF ~empty(popped.data)
             THEN MinHeap_bubbleDownTrace(popped, 0)
             ELSE popped

MinHeap_peekTrace(d) ==
    IF empty(d)
    THEN Trace("out_of_range", d)
    ELSE access(Trace("none", d), <<0>>)

\* ---------------------------------------------------------------- MaxHeap
\* slip: `if` in place of `while`, a single upward swap
MaxHeap_bubbleUp_OnceOnly(d, index) ==
    IF index > 0
    THEN LET parentIndex == (index - 1) \div 2
         IN  IF At(d, parentIndex) < At(d, index)
             THEN swap(d, parentIndex, index)
             ELSE d
    ELSE d

\* slip: the parent index of a 1-based layout, index / 2
RECURSIVE MaxHeap_bubbleUp_ParentHalf(_, _)
MaxHeap_bubbleUp_ParentHalf(d, index) ==
    IF index > 0
    THEN LET parentIndex == index \div 2
         IN  IF At(d, parentIndex) < At(d, index)
             THEN MaxHeap_bubbleUp_ParentHalf(swap(d, parentIndex, index), parentIndex)
             ELSE d
    ELSE d

RECURSIVE MaxHeap_bubbleUp(_, _)
MaxHeap_bubbleUp(d, index) ==
    IF index > 0
    THEN LET parentIndex == (index - 1) \div 2
         IN  IF At(d, parentIndex) < At(d, index)
             THEN MaxHeap_bubbleUp(swap(d, parentIndex, index), parentIndex)
             ELSE d
    ELSE d

\* slip: the right child is never looked at
RECURSIVE MaxHeap_bubbleDown_LeftOnly(_, _)
MaxHeap_bubbleDown_LeftOnly(d, index) ==
    LET leftChildIndex == 2 * index + 1
        largest == IF leftChildIndex < ToInt(size(d))
                      /\ At(d, leftChildIndex) > At(d, index)
                   THEN leftChildIndex ELSE index
    IN  IF largest # index
        THEN MaxHeap_bubbleDown_LeftOnly(swap(d, index, largest), largest)
        ELSE d

\* slip: the right child is compared with >=, so it wins a tie with the left
RECURSIVE MaxHeap_bubbleDown_RightOnTie(_, _)
MaxHeap_bubbleDown_RightOnTie(d, index) ==
    LET leftChildIndex == 2 * index + 1
        rightChildIndex == 2 * index + 2
        afterLeft == IF leftChildIndex < ToInt(size(d))
                        /\ At(d, leftChildIndex) > At(d, index)
                     THEN leftChildIndex ELSE index
        largest == IF rightChildIndex < ToInt(size(d))
                      /\ At(d, rightChildIndex) >= At(d, afterLeft)
                   THEN rightChildIndex ELSE afterLeft
    IN  IF largest # index
        THEN MaxHeap_bubbleDown_RightOnTie(swap(d, index, largest), largest)
        ELSE d

RECURSIVE MaxHeap_bubbleDown(_, _)
MaxHeap_bubbleDown(d, index) ==
    LET leftChildIndex == 2 * index + 1
        rightChildIndex == 2 * index + 2
        afterLeft == IF leftChildIndex < ToInt(size(d))
                        /\ At(d, leftChildIndex) > At(d, index)
                     THEN leftChildIndex ELSE index
        largest == IF rightChildIndex < ToInt(size(d))
                      /\ At(d, rightChildIndex) > At(d, afterLeft)
                   THEN rightChildIndex ELSE afterLeft
    IN  IF largest # index
        THEN MaxHeap_bubbleDown(swap(d, index, largest), largest)
        ELSE d

\* slip: the heap is treated as a set, an item already stored is refused
MaxHeap_enqueue_RejectsDuplicate(d, item) ==
    IF \E i \in DOMAIN d : d[i] = item
    THEN Result("invalid_argument", <<>>, d)
    ELSE LET pushed == push_back(d, item)
         IN  Result("none", <<>>, MaxHeap_bubbleUp(pushed, ToInt(size(pushed) - 1)))

MaxHeap_enqueue(d, item) ==
    LET pushed == push_back(d, item)
    IN  Result("none", <<>>, MaxHeap_bubbleUp(pushed, ToInt(size(pushed) - 1)))

\* slip: the root is not overwritten with the last element before pop_back
MaxHeap_dequeue_NoRootOverwrite(d) ==
    IF empty(d)
    THEN Result("out_of_range", <<>>, d)
    ELSE LET popped == pop_back(d)
         IN  IF ~empty(popped)
             THEN Result("none", <<>>, MaxHeap_bubbleDown(popped, 0))
             ELSE Result("none", <<>>, popped)

\* slip: pop_back only when more than one element is stored
MaxHeap_dequeue_KeepsLast(d) ==
    IF empty(d)
    THEN Result("out_of_range", <<>>, d)
    ELSE LET moved == [d EXCEPT ![1] = back(d)]
         IN  IF size(moved) > 1
             THEN Result("none", <<>>, MaxHeap_bubbleDown(pop_back(moved), 0))
             ELSE Result("none", <<>>, moved)

MaxHeap_dequeue(d) ==
    IF empty(d)
    THEN Result("out_of_range", <<>>, d)
    ELSE LET popped == pop_back([d EXCEPT ![1] = back(d)])
         IN  IF ~empty(popped)
             THEN Result("none", <<>>, MaxHeap_bubbleDown(popped, 0))
             ELSE Result("none", <<>>, popped)

\* slip: peek also removes the element it returns
MaxHeap_peek_Pops(d) ==
    IF empty(d)
    THEN Result("out_of_range", <<>>, d)
    ELSE Result("none", <<front(d)>>, MaxHeap_dequeue(d).data)

MaxHeap_peek(d) ==
    IF empty(d)
    THEN Result("out_of_range", <<>>, d)
    ELSE Result("none", <<front(d)>>, d)

MaxHeap_getSize(d) == Result("none", <<ToInt(size(d))>>, d)

MaxHeap_isEmpty(d) == Result("none", <<empty(d)>>, d)

RECURSIVE MaxHeap_bubbleUpTrace(_, _)
MaxHeap_bubbleUpTrace(t, index) ==
    LET v == visit(t, index)
    IN  IF index > 0
        THEN LET parentIndex == (index - 1) \div 2
                 r == access(v, <<parentIndex, index>>)
             IN  IF At(r.data, parentIndex) < At(r.data, index)
                 THEN MaxHeap_bubbleUpTrace(swapped(r, parentIndex, index), parentIndex)
                 ELSE r
        ELSE v

\* slip: the left child's bound test is <= data.size(), one past the end
RECURSIVE MaxHeap_bubbleDownTrace_OffByOne(_, _)
MaxHeap_bubbleDownTrace_OffByOne(t, index) ==
    LET v == visit(t, index)
        leftChildIndex == 2 * index + 1
        rightChildIndex == 2 * index + 2
        leftIn == leftChildIndex <= ToInt(size(v.data))
        leftReal == leftChildIndex < ToInt(size(v.data))
        r1 == IF leftIn THEN access(v, <<leftChildIndex, index>>) ELSE v
        afterLeft == IF leftReal /\ At(v.data, leftChildIndex) > At(v.data, index)
                     THEN leftChildIndex ELSE index
        rightIn == rightChildIndex < ToInt(size(v.data))
        r2 == IF rightIn THEN access(r1, <<rightChildIndex, afterLeft>>) ELSE r1
        largest == IF rightIn /\ At(v.data, rightChildIndex) > At(v.data, afterLeft)
                   THEN rightChildIndex ELSE afterLeft
    IN  IF largest # index
        THEN MaxHeap_bubbleDownTrace_OffByOne(swapped(r2, index, largest), largest)
        ELSE r2

\* slip: the right child is compared with >=, so it wins a tie with the left
RECURSIVE MaxHeap_bubbleDownTrace_PrefersRight(_, _)
MaxHeap_bubbleDownTrace_PrefersRight(t, index) ==
    LET v == visit(t, index)
        leftChildIndex == 2 * index + 1
        rightChildIndex == 2 * index + 2
        leftIn == leftChildIndex < ToInt(size(v.data))
        r1 == IF leftIn THEN access(v, <<leftChildIndex, index>>) ELSE v
        afterLeft == IF leftIn /\ At(v.data, leftChildIndex) > At(v.data, index)
                     THEN leftChildIndex ELSE index
        rightIn == rightChildIndex < ToInt(size(v.data))
        r2 == IF rightIn THEN access(r1, <<rightChildIndex, afterLeft>>) ELSE r1
        largest == IF rightIn /\ At(v.data, rightChildIndex) >= At(v.data, afterLeft)
                   THEN rightChildIndex ELSE afterLeft
    IN  IF largest # index
        THEN MaxHeap_bubbleDownTrace_PrefersRight(swapped(r2, index, largest), largest)
        ELSE r2

RECURSIVE MaxHeap_bubbleDownTrace(_, _)
MaxHeap_bubbleDownTrace(t, index) ==
    LET v == visit(t, index)
        leftChildIndex == 2 * index + 1
        rightChildIndex == 2 * index + 2
        leftIn == leftChildIndex < ToInt(size(v.data))
        r1 == IF leftIn THEN access(v, <<leftChildIndex, index>>) ELSE v
        afterLeft == IF leftIn /\ At(v.data, leftChildIndex) > At(v.data, index)
                     THEN leftChildIndex ELSE index
        rightIn == rightChildIndex < ToInt(size(v.data))
        r2 == IF rightIn THEN access(r1, <<rightChildIndex, afterLeft>>) ELSE r1
        largest == IF rightIn /\ At(v.data, rightChildIndex) > At(v.data, afterLeft)
                    THEN rightChildIndex ELSE afterLeft
    IN  IF largest # index
        THEN MaxHeap_bubbleDownTrace(swapped(r2, index, largest), largest)
        ELSE r2

MaxHeap_enqueueTrace(d, item) ==
    LET pushed == push_back(d, item)
    IN  MaxHeap_bubbleUpTrace(Trace("none", pushed), ToInt(size(pushed) - 1))

MaxHeap_dequeueTrace(d) ==
    IF empty(d)
    THEN Trace("out_of_range", d)
    ELSE LET moved == [access(Trace("none", d), <<0, size(d) - 1>>)
                          EXCEPT !.data = [@ EXCEPT ![1] = back(d)],
                                 !.from = [@ EXCEPT ![1] = size(d) - 1]]
             popped == [moved EXCEPT !.data = pop_back(@), !.from = pop_back(@)]
         IN  IF ~empty(popped.data)
             THEN MaxHeap_bubbleDownTrace(popped, 0)
             ELSE popped

MaxHeap_peekTrace(d) ==
    IF empty(d)
    THEN Trace("out_of_range", d)
    ELSE access(Trace("none", d), <<0>>)

\* ------------------------------------------------------------------ state
VARIABLES
    pc,        \* "new" before construction, "live" once constructed,
               \* "failed" when the constructor threw (no object exists)
    kind,      \* "min" for MinHeap<int>, "max" for MaxHeap<int>
    hint,      \* <<>> for the default constructor, <<n>> for Heap(n)
    data,      \* the vector `data` of the heap
    capacity,  \* data.capacity()
    ref,       \* `data` of a default-constructed heap given the same calls
    mirror,    \* `data` of a heap of the other class given the same calls
               \* with every value negated
    lastOp,    \* the member called last
    lastArg,   \* <<item>> for enqueue(item), <<n>> for Heap(n), else <<>>
    lastErr,   \* the exception the last call threw, "none" if it returned
    lastRet,   \* <<value>> the last call returned, <<>> if void or thrown
    nEnq,      \* number of enqueue calls so far
    nDeq,      \* number of dequeue calls so far that did not throw
    input,     \* scripted run: the values to enqueue
    todo,      \* scripted run: the values not yet enqueued
    out,       \* scripted run: the values peeked while draining
    tags,      \* scripted run: for each element of data, its insertion number
    outTags,   \* scripted run: the insertion numbers of the peeked elements
    callers    \* shared use: what each caller of the heap is doing

vars == <<pc, kind, hint, data, capacity, ref, mirror, lastOp, lastArg, lastErr,
          lastRet, nEnq, nDeq, input, todo, out, tags, outTags, callers>>

script == <<input, todo, out, tags, outTags>>

Other(k) == IF k = "min" THEN "max" ELSE "min"

\* the two classes share no code: each call goes to the class of the object
enqueue(k, d, item) == IF k = "min" THEN MinHeap_enqueue(d, item) ELSE MaxHeap_enqueue(d, item)
dequeue(k, d) == IF k = "min" THEN MinHeap_dequeue(d) ELSE MaxHeap_dequeue(d)
peek(k, d) == IF k = "min" THEN MinHeap_peek(d) ELSE MaxHeap_peek(d)
getSize(k, d) == IF k = "min" THEN MinHeap_getSize(d) ELSE MaxHeap_getSize(d)
isEmpty(k, d) == IF k = "min" THEN MinHeap_isEmpty(d) ELSE MaxHeap_isEmpty(d)

enqueueTrace(k, d, item) == IF k = "min" THEN MinHeap_enqueueTrace(d, item) ELSE MaxHeap_enqueueTrace(d, item)
dequeueTrace(k, d) == IF k = "min" THEN MinHeap_dequeueTrace(d) ELSE MaxHeap_dequeueTrace(d)
peekTrace(k, d) == IF k = "min" THEN MinHeap_peekTrace(d) ELSE MaxHeap_peekTrace(d)

Init ==
    /\ pc = "new"
    /\ kind \in Kinds
    /\ hint = <<>>
    /\ data = <<>>
    /\ capacity = 0
    /\ ref = <<>>
    /\ mirror = <<>>
    /\ lastOp = "none"
    /\ lastArg = <<>>
    /\ lastErr = "none"
    /\ lastRet = <<>>
    /\ nEnq = 0
    /\ nDeq = 0
    /\ input = <<>>
    /\ todo = <<>>
    /\ out = <<>>
    /\ tags = <<>>
    /\ outTags = <<>>
    /\ callers = <<>>

\* MinHeap() / MaxHeap()
DefaultCtor ==
    /\ pc = "new"
    /\ pc' = "live"
    /\ lastOp' = "ctor"
    /\ UNCHANGED <<kind, hint, data, capacity, ref, mirror, lastArg, lastErr,
                   lastRet, nEnq, nDeq, script, callers>>

\* MinHeap(int initialSize) / MaxHeap(int initialSize)
HintCtor(initialSize) ==
    /\ pc = "new"
    /\ LET r == reserve(capacity, initialSize)
       IN  /\ pc' = IF r.err = "none" THEN "live" ELSE "failed"
           /\ lastErr' = r.err
           /\ capacity' = r.capacity
    /\ hint' = <<initialSize>>
    /\ lastOp' = "ctor"
    /\ lastArg' = <<initialSize>>
    /\ UNCHANGED <<kind, data, ref, mirror, lastRet, nEnq, nDeq, script, callers>>

\* the effect of one call on the object and on the record of the last call
Call(op, arg, r, refData) ==
    /\ lastOp' = op
    /\ lastArg' = arg
    /\ lastErr' = r.err
    /\ lastRet' = r.ret
    /\ data' = r.data
    /\ ref' = refData
    /\ UNCHANGED <<pc, kind, hint>>

EnqueueCall(item) ==
    /\ pc = "live"
    /\ LET r == enqueue(kind, data, item)
       IN  /\ Call("enqueue", <<item>>, r, enqueue(kind, ref, item).data)
           /\ capacity' = grow(capacity, size(data))
    /\ mirror' = enqueue(Other(kind), mirror, -item).data
    /\ nEnq' = nEnq + 1
    /\ UNCHANGED nDeq

DequeueCall ==
    /\ pc = "live"
    /\ LET r == dequeue(kind, data)
       IN  /\ Call("dequeue", <<>>, r, dequeue(kind, ref).data)
           /\ nDeq' = IF r.err = "none" THEN nDeq + 1 ELSE nDeq
    /\ mirror' = dequeue(Other(kind), mirror).data
    /\ UNCHANGED <<capacity, nEnq>>

PeekCall ==
    /\ pc = "live"
    /\ Call("peek", <<>>, peek(kind, data), peek(kind, ref).data)
    /\ mirror' = peek(Other(kind), mirror).data
    /\ UNCHANGED <<capacity, nEnq, nDeq>>

Enqueue(item) == nEnq < MaxEnq /\ EnqueueCall(item) /\ UNCHANGED <<script, callers>>

Dequeue == DequeueCall /\ UNCHANGED <<script, callers>>

Peek == PeekCall /\ UNCHANGED <<script, callers>>

GetSize ==
    /\ pc = "live"
    /\ Call("getSize", <<>>, getSize(kind, data), getSize(kind, ref).data)
    /\ mirror' = getSize(Other(kind), mirror).data
    /\ UNCHANGED <<capacity, nEnq, nDeq, script, callers>>

IsEmpty ==
    /\ pc = "live"
    /\ Call("isEmpty", <<>>, isEmpty(kind, data), isEmpty(kind, ref).data)
    /\ mirror' = isEmpty(Other(kind), mirror).data
    /\ UNCHANGED <<capacity, nEnq, nDeq, script, callers>>

Next ==
    \/ DefaultCtor
    \/ \E n \in Hints : HintCtor(n)
    \/ \E v \in Values : Enqueue(v)
    \/ Dequeue
    \/ Peek
    \/ GetSize
    \/ IsEmpty

Spec == Init /\ [][Next]_vars

\* ------------------------------------------------------- scripted run
\* The run of the extraction-order property: a default-constructed heap is
\* fed every value of `input`, then drained by
\*     while (!h.isEmpty()) { out.push_back(h.peek()); h.dequeue(); }
ExampleInput == <<5, 3, 8, 1, 9, 2>>

DuplicateInput == <<4, 4, 4>>

Inputs == UNION {[1..n -> Values] : n \in 0..MaxFill} \cup {ExampleInput, DuplicateInput}

\* the insertion numbers travel with the elements they tag
Carry(tg, from) == [i \in DOMAIN from |-> tg[from[i] + 1]]

InitDrain ==
    /\ pc = "live"
    /\ kind \in Kinds
    /\ hint = <<>>
    /\ data = <<>>
    /\ capacity = 0
    /\ ref = <<>>
    /\ mirror = <<>>
    /\ lastOp = "ctor"
    /\ lastArg = <<>>
    /\ lastErr = "none"
    /\ lastRet = <<>>
    /\ nEnq = 0
    /\ nDeq = 0
    /\ input \in Inputs
    /\ todo = input
    /\ out = <<>>
    /\ tags = <<>>
    /\ outTags = <<>>
    /\ callers = <<>>

Feed ==
    /\ todo # <<>>
    /\ EnqueueCall(Head(todo))
    /\ todo' = Tail(todo)
    /\ tags' = Carry(push_back(tags, nEnq + 1), enqueueTrace(kind, data, Head(todo)).from)
    /\ UNCHANGED <<input, out, outTags, callers>>

DrainPeek ==
    /\ todo = <<>>
    /\ lastOp # "peek"
    /\ ~isEmpty(kind, data).ret[1]
    /\ PeekCall
    /\ out' = Append(out, peek(kind, data).ret[1])
    /\ outTags' = Append(outTags, Carry(tags, peekTrace(kind, data).from)[1])
    /\ UNCHANGED <<input, todo, tags, callers>>

DrainDequeue ==
    /\ todo = <<>>
    /\ lastOp = "peek"
    /\ DequeueCall
    /\ tags' = Carry(tags, dequeueTrace(kind, data).from)
    /\ UNCHANGED <<input, todo, out, outTags, callers>>

NextDrain == Feed \/ DrainPeek \/ DrainDequeue

SpecDrain == InitDrain /\ [][NextDrain]_vars

\* ---------------------------------------------------------- shared use
\* Several callers share one heap without a lock. A caller reads the extremum
\* with peek and removes it with dequeue, two separate calls; when it is not
\* between the two it may enqueue. Each call runs to completion before the
\* next starts; the calls of different callers interleave freely.
Callers == 1..NumCallers

BagOf(s) == [v \in {s[i] : i \in DOMAIN s} |-> Cardinality({i \in DOMAIN s : s[i] = v})]
One(v) == SetToBag({v})

\* a caller: where it is, the value its peek returned, the value its dequeue
\* removed, whether its dequeue threw, and whether another caller's enqueue or
\* dequeue changed the heap between its peek and its dequeue
Idle == [pc |-> "idle", seen |-> {}, took |-> {}, threw |-> FALSE, meddled |-> FALSE]

Meddle(cs, c) ==
    [o \in Callers |-> IF o # c /\ cs[o].pc = "peeked"
                       THEN [cs[o] EXCEPT !.meddled = TRUE]
                       ELSE cs[o]]

InitRace ==
    /\ pc = "live"
    /\ kind \in Kinds
    /\ hint = <<>>
    /\ data = <<>>
    /\ capacity = 0
    /\ ref = <<>>
    /\ mirror = <<>>
    /\ lastOp = "ctor"
    /\ lastArg = <<>>
    /\ lastErr = "none"
    /\ lastRet = <<>>
    /\ nEnq = 0
    /\ nDeq = 0
    /\ input = <<>>
    /\ todo = <<>>
    /\ out = <<>>
    /\ tags = <<>>
    /\ outTags = <<>>
    /\ callers = [c \in Callers |-> Idle]

RaceEnqueue(c, item) ==
    /\ callers[c].pc = "idle"
    /\ nEnq < MaxRaceEnq
    /\ EnqueueCall(item)
    /\ callers' = Meddle(callers, c)
    /\ UNCHANGED script

RacePeek(c) ==
    /\ callers[c].pc = "idle"
    /\ PeekCall
    /\ LET r == peek(kind, data)
       IN  callers' = [callers EXCEPT ![c] =
                          IF r.err = "none"
                          THEN [Idle EXCEPT !.pc = "peeked", !.seen = {r.ret[1]}]
                          ELSE Idle]
    /\ UNCHANGED script

RaceDequeue(c) ==
    /\ callers[c].pc = "peeked"
    /\ DequeueCall
    /\ LET r == dequeue(kind, data)
           removed == {v \in {data[i] : i \in DOMAIN data} :
                          BagOf(data) = BagOf(r.data) (+) One(v)}
           others == IF r.err = "none" THEN Meddle(callers, c) ELSE callers
       IN  callers' = [others EXCEPT ![c] =
                          [@ EXCEPT !.pc = "idle", !.took = removed,
                                    !.threw = (r.err # "none")]]
    /\ UNCHANGED script

NextRace ==
    \/ \E c \in Callers, v \in Values : RaceEnqueue(c, v)
    \/ \E c \in Callers : RacePeek(c)
    \/ \E c \in Callers : RaceDequeue(c)

SpecRace == InitRace /\ [][NextRace]_vars

\* ---------------------------------------------------------- properties
Indices(d) == 0..(Len(d) - 1)
Children(i) == {2 * i + 1, 2 * i + 2}

MinHeapProperty(d) ==
    \A i \in Indices(d) : \A c \in Children(i) : c < Len(d) => At(d, i) <= At(d, c)

MaxHeapProperty(d) ==
    \A i \in Indices(d) : \A c \in Children(i) : c < Len(d) => At(d, i) >= At(d, c)

\* C1: after every call of any interleaving of enqueue and dequeue on a
\* MinHeap that started empty (failed dequeues included), every index i with a
\* child c in {2i+1, 2i+2} inside the vector has data[i] <= data[c].
C1_MinHeapInvariant == kind = "min" => MinHeapProperty(data)

\* a MinHeap whose last call was a dequeue that left at least four elements,
\* not all equal, after a repair that had to move the new root
C1_Witness ==
    /\ kind = "min" /\ lastOp = "dequeue" /\ lastErr = "none"
    /\ Len(data) >= 4 /\ At(data, 0) < At(data, 3)
    /\ At(data, 1) = MaxVal

\* C2: after every call of any interleaving of enqueue and dequeue on a
\* MaxHeap that started empty, every index i with a child c in {2i+1, 2i+2}
\* inside the vector has data[i] >= data[c].
C2_MaxHeapInvariant == kind = "max" => MaxHeapProperty(data)

C2_Witness ==
    /\ kind = "max" /\ lastOp = "enqueue" /\ Len(data) >= 4
    /\ lastArg = <<At(data, 0)>> /\ At(data, 0) > At(data, 1)
    /\ nDeq >= 1

\* C3: whenever the heap is non-empty, peek returns without throwing an
\* element of the vector that is <= every stored element (MinHeap) or >=
\* every stored element (MaxHeap).
C3_PeekIsExtremum ==
    (pc = "live" /\ ~empty(data)) =>
        LET r == peek(kind, data)
        IN  /\ r.err = "none"
            /\ \E i \in Indices(data) : r.ret = <<At(data, i)>>
            /\ kind = "min" => \A i \in Indices(data) : r.ret[1] <= At(data, i)
            /\ kind = "max" => \A i \in Indices(data) : r.ret[1] >= At(data, i)
            /\ (lastOp = "peek" /\ lastErr = "none") => lastRet = r.ret

C3_Witness ==
    /\ lastOp = "peek" /\ lastErr = "none" /\ nDeq >= 1 /\ Len(data) >= 3
    /\ \E i \in Indices(data) : At(data, i) # lastRet[1]

IsNonDecreasing(s) == \A i \in 1..(Len(s) - 1) : s[i] <= s[i + 1]
IsNonIncreasing(s) == \A i \in 1..(Len(s) - 1) : s[i] >= s[i + 1]
Drained == todo = <<>> /\ empty(data) /\ lastOp # "peek"

\* C4: when the values of a finite sequence are enqueued into an empty heap
\* and the heap is drained by peek followed by dequeue until isEmpty, the
\* peeked values are non-decreasing (MinHeap) / non-increasing (MaxHeap) and
\* form the same multiset as the input; [5,3,8,1,9,2] gives 1,2,3,5,8,9 from
\* a MinHeap and 9,8,5,3,2,1 from a MaxHeap.
C4_DrainIsSorted ==
    /\ kind = "min" => IsNonDecreasing(out)
    /\ kind = "max" => IsNonIncreasing(out)
    /\ Drained => BagOf(out) = BagOf(input)
    /\ (Drained /\ input = ExampleInput /\ kind = "min") => out = <<1, 2, 3, 5, 8, 9>>
    /\ (Drained /\ input = ExampleInput /\ kind = "max") => out = <<9, 8, 5, 3, 2, 1>>

C4_Witness ==
    /\ Drained /\ input = ExampleInput /\ Len(out) = Len(ExampleInput)
    /\ kind = "max" /\ nDeq = Len(ExampleInput)

\* C5: a dequeue that does not throw removes exactly one occurrence of the
\* value that was at index 0 and nothing else; enqueue(v) adds exactly one
\* occurrence of v; every other call (a throwing dequeue included) leaves the
\* stored multiset as it was.
C5_MultisetEffect ==
    [][/\ (lastOp' = "dequeue" /\ lastErr' = "none") =>
              /\ ~empty(data)
              /\ BagOf(data) = BagOf(data') (+) One(At(data, 0))
       /\ lastOp' = "enqueue" =>
              BagOf(data') = BagOf(data) (+) One(lastArg'[1])
       /\ ~(lastOp' = "enqueue" \/ (lastOp' = "dequeue" /\ lastErr' = "none")) =>
              BagOf(data') = BagOf(data)]_vars

C5_Witness ==
    /\ lastOp = "dequeue" /\ lastErr = "none" /\ Len(data) >= 3 /\ nDeq >= 2
    /\ Cardinality({At(data, i) : i \in Indices(data)}) >= 2

\* C6: at every point getSize() is the number of enqueue calls minus the
\* number of dequeue calls that did not throw, and isEmpty() is true exactly
\* when getSize() is 0.
C6_SizeAccounting ==
    pc = "live" =>
        /\ getSize(kind, data).ret = <<nEnq - nDeq>>
        /\ isEmpty(kind, data).ret = <<getSize(kind, data).ret[1] = 0>>
        /\ lastOp = "getSize" => (lastErr = "none" /\ lastRet = <<nEnq - nDeq>>)
        /\ lastOp = "isEmpty" => (lastErr = "none" /\ lastRet = <<nEnq - nDeq = 0>>)

C6_Witness ==
    /\ lastOp = "getSize" /\ lastRet = <<2>> /\ nEnq = 4 /\ nDeq = 2

\* C7: on a heap with no elements, freshly constructed or drained, every peek
\* and every dequeue throws std::out_of_range, returns no value, and leaves
\* the heap empty with the same size.
C7_EmptyThrows ==
    [][(pc = "live" /\ empty(data) /\ lastOp' \in {"peek", "dequeue"}) =>
          /\ lastErr' = "out_of_range"
          /\ lastRet' = <<>>
          /\ data' = data
          /\ nDeq' = nDeq /\ nEnq' = nEnq]_vars

\* a drained heap on which a call has just thrown
C7_Witness ==
    /\ lastOp \in {"peek", "dequeue"} /\ lastErr = "out_of_range"
    /\ empty(data) /\ nDeq >= 2 /\ nDeq = nEnq

\* C8: peek on a non-empty heap leaves the vector and getSize() as they were
\* and returns the element at index 0, and a peek that directly follows a peek
\* returns the same value.
C8_PeekIsPure ==
    [][(pc = "live" /\ ~empty(data) /\ lastOp' = "peek") =>
          /\ data' = data
          /\ getSize(kind, data').ret = getSize(kind, data).ret
          /\ lastRet' = <<At(data, 0)>>
          /\ (lastOp = "peek" /\ lastErr = "none") => lastRet' = lastRet]_vars

C8_Witness ==
    /\ lastOp = "peek" /\ lastErr = "none" /\ Len(data) >= 2
    /\ lastRet = <<At(data, 0)>> /\ At(data, 0) # At(data, 1)

C10_HintIsUnobservable ==
    (pc # "new" /\ hint # <<>>) =>
        /\ pc = "live"
        /\ lastOp = "ctor" => (lastErr = "none" /\ empty(data))
        /\ data = ref
        /\ peek(kind, data) = peek(kind, ref)
        /\ dequeue(kind, data) = dequeue(kind, ref)
        /\ getSize(kind, data) = getSize(kind, ref)
        /\ isEmpty(kind, data) = isEmpty(kind, ref)

AllSame(s) == \A i, j \in DOMAIN s : s[i] = s[j]

\* C11: when n copies of one value v are enqueued into either heap and the
\* heap is drained, no call throws, getSize() is n after the last enqueue,
\* every peek returns v, and after n dequeues the heap is empty.
C11_DuplicatesTolerated ==
    (input # <<>> /\ AllSame(input)) =>
        /\ lastErr = "none"
        /\ (todo = <<>> /\ nDeq = 0) => getSize(kind, data).ret = <<Len(input)>>
        /\ \A i \in DOMAIN out : out[i] = input[1]
        /\ ~empty(data) => peek(kind, data) = Result("none", <<input[1]>>, data)
        /\ Drained => /\ Len(out) = Len(input)
                      /\ nDeq = Len(input)
                      /\ isEmpty(kind, data).ret = <<TRUE>>

C11_Witness ==
    /\ Drained /\ input = DuplicateInput /\ out = DuplicateInput
    /\ kind = "min" /\ lastOp = "dequeue" /\ lastErr = "none"

\* C12: enqueue(v) on an empty heap of either class makes peek return v, and
\* the dequeue that follows returns normally and leaves the heap empty, with
\* isEmpty() true and getSize() 0.
C12_SingleElementRoundTrip ==
    [][/\ (pc = "live" /\ empty(data) /\ lastOp' = "enqueue") =>
              LET v == lastArg'[1]
                  r == dequeue(kind, data')
              IN  /\ lastErr' = "none"
                  /\ peek(kind, data') = Result("none", <<v>>, data')
                  /\ r.err = "none"
                  /\ isEmpty(kind, r.data).ret = <<TRUE>>
                  /\ getSize(kind, r.data).ret = <<0>>
       /\ (pc = "live" /\ size(data) = 1 /\ lastOp' = "dequeue") =>
              /\ lastErr' = "none"
              /\ data' = <<>>
              /\ isEmpty(kind, data').ret = <<TRUE>>]_vars

C12_Witness ==
    /\ lastOp = "dequeue" /\ lastErr = "none" /\ empty(data)
    /\ nEnq = 1 /\ nDeq = 1 /\ kind = "max"

\* the recorded execution of a call computes what the call computes
TraceAgrees ==
    /\ lastOp' = "enqueue" =>
           LET t == enqueueTrace(kind, data, lastArg'[1])
           IN  t.err = lastErr' /\ t.data = data'
    /\ lastOp' = "dequeue" =>
           LET t == dequeueTrace(kind, data)
           IN  t.err = lastErr' /\ t.data = data'
    /\ lastOp' = "peek" =>
           LET t == peekTrace(kind, data)
           IN  t.err = lastErr' /\ t.data = data'

TraceAgreesAlways == [][pc = "live" => TraceAgrees]_vars

ParentOf(i) == (i - 1) \div 2

\* a is strictly beyond b in the direction the heap repairs:
\* a > b in a MinHeap's upward repair, a < b in a MaxHeap's, and the reverse
\* for the downward repair
StrictlyAbove(k, a, b) == IF k = "min" THEN a > b ELSE a < b
StrictlyBelow(k, a, b) == IF k = "min" THEN a < b ELSE a > b

\* C13: enqueue(v) appends v at the last index and then moves v one parent up
\* at a time, each time only because the current parent is strictly greater
\* (MinHeap) / strictly smaller (MaxHeap), and stops at index 0 or at the first
\* parent that is not; an equal parent is never swapped, so enqueueing v into
\* a heap whose elements all equal v gives the old vector with v appended.
C13_SiftUpIsStrict ==
    [][(pc = "live" /\ lastOp' = "enqueue") =>
          LET v == lastArg'[1]
              t == enqueueTrace(kind, data, v)
              vs == t.visits
              last == vs[Len(vs)]
          IN  /\ TraceAgrees
              /\ vs[1].index = Len(data)
              /\ vs[1].data = Append(data, v)
              /\ \A i \in 1..Len(vs) : At(vs[i].data, vs[i].index) = v
              /\ \A i \in 1..(Len(vs) - 1) :
                     /\ vs[i].index > 0
                     /\ vs[i + 1].index = ParentOf(vs[i].index)
                     /\ StrictlyAbove(kind, At(vs[i].data, ParentOf(vs[i].index)), v)
                     /\ vs[i + 1].data = swap(vs[i].data, ParentOf(vs[i].index), vs[i].index)
              /\ \/ last.index = 0
                 \/ ~StrictlyAbove(kind, At(last.data, ParentOf(last.index)), v)
              /\ data' = last.data
              /\ Len(t.swaps) = Len(vs) - 1
              /\ AllSame(Append(data, v)) => (t.swaps = <<>> /\ data' = Append(data, v))]_vars

\* v was appended at index 3, swapped with its greater parent at index 1 and
\* stopped below a root equal to it
C13_Witness ==
    /\ kind = "min" /\ lastOp = "enqueue" /\ Len(data) = 4
    /\ At(data, 1) = lastArg[1] /\ At(data, 0) = lastArg[1]
    /\ At(data, 3) > lastArg[1]

\* C14: at every entry of bubbleDown during a dequeue: if both children exist,
\* are equal and are strictly smaller (MinHeap) / larger (MaxHeap) than the
\* current node, the swap is with the left child 2i+1; the right child is
\* taken only when it is strictly smaller / larger than the left child (and
\* than the node); and the repair stops without a swap exactly when no child
\* is strictly smaller / larger than the current node.
C14_SiftDownPrefersLeft ==
    [][(pc = "live" /\ lastOp' = "dequeue" /\ lastErr' = "none" /\ ~empty(data')) =>
          LET t == dequeueTrace(kind, data)
              vs == t.visits
          IN  /\ TraceAgrees
              /\ vs # <<>>
              /\ vs[1].index = 0
              /\ vs[Len(vs)].data = data'
              /\ \A i \in 1..Len(vs) :
                     LET d == vs[i].data
                         idx == vs[i].index
                         l == 2 * idx + 1
                         r == 2 * idx + 2
                         n == Len(d)
                         more == i < Len(vs)
                         next == IF more THEN vs[i + 1].index ELSE idx
                         lBelow == l < n /\ StrictlyBelow(kind, At(d, l), At(d, idx))
                         rBelow == r < n /\ StrictlyBelow(kind, At(d, r), At(d, idx))
                     IN  /\ (r < n /\ At(d, l) = At(d, r) /\ lBelow) => (more /\ next = l)
                         /\ (more /\ next = r) =>
                                (rBelow /\ StrictlyBelow(kind, At(d, r), At(d, l)))
                         /\ (more /\ next = l) =>
                                (lBelow /\ (r < n => ~StrictlyBelow(kind, At(d, r), At(d, l))))
                         /\ more => (next \in {l, r} /\ vs[i + 1].data = swap(d, idx, next))
                         /\ more <=> (lBelow \/ rBelow)]_vars

\* a MaxHeap dequeue moved 1 to the root above two equal children 3, 3 and
\* swapped it with the left one
C14_Witness ==
    /\ kind = "max" /\ lastOp = "dequeue" /\ lastErr = "none" /\ Len(data) = 3
    /\ At(data, 0) = At(data, 2) /\ At(data, 1) < At(data, 0)

Negated(d) == [i \in DOMAIN d |-> -d[i]]
NegatedRet(r) == [i \in DOMAIN r |-> -r[i]]

\* C15: after every call of every sequence of enqueue/dequeue/peek calls, a
\* MaxHeap given values x and a MinHeap given values -x hold vectors that are
\* equal position by position up to negation, have the same size, throw on
\* the same calls, and return negated values from peek.
C15_MaxMirrorsMin ==
    pc = "live" =>
        /\ Len(mirror) = Len(data)
        /\ mirror = Negated(data)
        /\ getSize(Other(kind), mirror).ret = getSize(kind, data).ret
        /\ isEmpty(Other(kind), mirror).ret = isEmpty(kind, data).ret
        /\ peek(Other(kind), mirror).err = peek(kind, data).err
        /\ peek(Other(kind), mirror).ret = NegatedRet(peek(kind, data).ret)
        /\ dequeue(Other(kind), mirror).err = dequeue(kind, data).err
        /\ dequeue(Other(kind), mirror).data = Negated(dequeue(kind, data).data)
        /\ \A v \in Values :
               /\ enqueue(Other(kind), mirror, -v).err = enqueue(kind, data, v).err
               /\ enqueue(Other(kind), mirror, -v).data = Negated(enqueue(kind, data, v).data)

C15_Witness ==
    /\ kind = "max" /\ lastOp = "dequeue" /\ lastErr = "none" /\ nDeq >= 1
    /\ Len(data) >= 4 /\ mirror = Negated(data)
    /\ At(data, 1) < At(data, 2) /\ At(data, 3) < At(data, 1)

RECURSIVE FloorLog2(_)
FloorLog2(n) == IF n <= 1 THEN 0 ELSE 1 + FloorLog2(n \div 2)

\* C16: every enqueue and dequeue ends after bounded repair work: with n
\* elements in the vector after the append, bubbleUp makes at most
\* floor(log2(n)) swaps; with n >= 1 elements after the shrink, bubbleDown
\* started at index 0 nests at most floor(log2(n)) + 1 calls, each on a
\* strictly larger index than the call before; on a one-element heap dequeue
\* does not call bubbleDown.
C16_BoundedRepair ==
    [][/\ (pc = "live" /\ lastOp' = "enqueue") =>
              LET t == enqueueTrace(kind, data, lastArg'[1])
              IN  /\ TraceAgrees
                  /\ Len(t.swaps) <= FloorLog2(Len(data'))
                  /\ Len(t.visits) = Len(t.swaps) + 1
                  /\ \A i \in 1..(Len(t.visits) - 1) :
                         t.visits[i + 1].index < t.visits[i].index
       /\ (pc = "live" /\ lastOp' = "dequeue" /\ lastErr' = "none") =>
              LET t == dequeueTrace(kind, data)
              IN  /\ TraceAgrees
                  /\ empty(data') => t.visits = <<>>
                  /\ ~empty(data') =>
                         /\ t.visits[1].index = 0
                         /\ Len(t.visits) <= FloorLog2(Len(data')) + 1
                         /\ Len(t.swaps) = Len(t.visits) - 1
                  /\ \A i \in 1..(Len(t.visits) - 1) :
                         t.visits[i + 1].index > t.visits[i].index]_vars

\* the fifth element was enqueued at index 4 and swapped floor(log2(5)) = 2
\* times, up to the root
C16_Witness ==
    /\ kind = "min" /\ lastOp = "enqueue" /\ Len(data) = 5
    /\ At(data, 0) = lastArg[1]
    /\ \A i \in 1..4 : At(data, i) > lastArg[1]

\* caller c has finished a peek-then-dequeue pair whose dequeue did not remove
\* the value the peek returned (it removed another value, or it threw)
Mismatch(c) ==
    /\ callers[c].pc = "idle"
    /\ callers[c].seen # {}
    /\ callers[c].took # callers[c].seen

\* C17: with two callers sharing the heap without a lock, a caller's dequeue
\* removes a value other than the one its peek returned, or throws although
\* the heap was non-empty at the peek, only in runs where another caller's
\* enqueue or dequeue ran between the two calls; and such a run exists
\* (C17_Witness).
C17_PeekThenRemoveRace ==
    \A c \in DOMAIN callers : Mismatch(c) => callers[c].meddled

\* a caller whose dequeue removed a value different from the one it peeked
C17_Witness ==
    \E c \in DOMAIN callers :
        /\ Mismatch(c) /\ callers[c].meddled /\ ~callers[c].threw
        /\ callers[c].took # {}

\* C18: stability is not guaranteed: elements that compare equal, told apart
\* by their insertion number, can leave the heap in the opposite order to the
\* order they were enqueued in. Every run that enqueues three or more equal
\* elements and drains the heap is such a run: two of them leave in reversed
\* order (for [4,4,4] the order is first, third, second).
C18_NotStable ==
    /\ Len(tags) = Len(data)
    /\ \A i \in DOMAIN tags : input[tags[i]] = data[i]
    /\ \A i \in DOMAIN outTags : input[outTags[i]] = out[i]
    /\ (Drained /\ AllSame(input) /\ Len(input) >= 3) =>
           \E i, j \in DOMAIN outTags : i < j /\ outTags[i] > outTags[j]
    /\ (Drained /\ input = DuplicateInput) => outTags = <<1, 3, 2>>

C18_Witness ==
    /\ Drained /\ input = DuplicateInput /\ out = DuplicateInput
    /\ outTags[2] = 3 /\ outTags[3] = 2

RECURSIVE IsAncestorOrSelf(_, _)
IsAncestorOrSelf(a, b) == a = b \/ (b > 0 /\ IsAncestorOrSelf(a, ParentOf(b)))

VisitedIndices(t) == {t.visits[i].index : i \in DOMAIN t.visits}

\* C19: enqueue changes only positions on the path from the new last index
\* up through its ancestors to index 0; a dequeue that returns drops the last
\* slot and changes only positions on one path that starts at index 0 and goes
\* from a node to one of its children; every other position keeps its element.
C19_RepairFrame ==
    [][/\ (pc = "live" /\ lastOp' = "enqueue") =>
              LET t == enqueueTrace(kind, data, lastArg'[1])
                  new == Len(data)
              IN  /\ TraceAgrees
                  /\ Len(data') = Len(data) + 1
                  /\ \A k \in Indices(data) :
                         ~IsAncestorOrSelf(k, new) =>
                             (At(data', k) = At(data, k) /\ At(t.from, k) = k)
       /\ (pc = "live" /\ lastOp' = "dequeue" /\ lastErr' = "none") =>
              LET t == dequeueTrace(kind, data)
                  path == VisitedIndices(t)
                  changed == {k \in Indices(data') : At(data', k) # At(data, k)}
              IN  /\ TraceAgrees
                  /\ Len(data') = Len(data) - 1
                  /\ \A i \in DOMAIN t.visits :
                         IF i = 1 THEN t.visits[i].index = 0
                         ELSE t.visits[i].index \in Children(t.visits[i - 1].index)
                  /\ \A k \in Indices(data') :
                         k \notin path =>
                             (At(data', k) = At(data, k) /\ At(t.from, k) = k)
                  /\ \A a, b \in changed :
                         IsAncestorOrSelf(a, b) \/ IsAncestorOrSelf(b, a)]_vars

\* the fifth element was enqueued at index 4 and went up to the root through
\* index 1; indices 2 and 3 are off its path
C19_Witness ==
    /\ kind = "max" /\ lastOp = "enqueue" /\ Len(data) = 5
    /\ At(data, 0) = lastArg[1]
    /\ \A i \in 1..4 : At(data, i) < lastArg[1]
    /\ At(data, 2) # At(data, 3)

InBounds(t) == \A i \in DOMAIN t.acc : 0 <= t.acc[i][1] /\ t.acc[i][1] < t.acc[i][2]

\* C20: in every reachable state, every element access data[k] that enqueue
\* (bubbleUp), dequeue (its root overwrite and bubbleDown) and peek make uses
\* an index with 0 <= k < data.size() at the moment of the access; a dequeue
\* on a one-element heap reads and writes index 0 only and does not call
\* bubbleDown; a throwing peek or dequeue accesses no element.
C20_IndexSafety ==
    [][/\ (pc = "live" /\ lastOp' = "enqueue") =>
              LET t == enqueueTrace(kind, data, lastArg'[1])
              IN  /\ TraceAgrees
                  /\ InBounds(t)
                  /\ \A i \in DOMAIN t.acc : t.acc[i][2] = Len(data) + 1
       /\ (pc = "live" /\ lastOp' = "dequeue") =>
              LET t == dequeueTrace(kind, data)
              IN  /\ TraceAgrees
                  /\ InBounds(t)
                  /\ lastErr' # "none" => t.acc = <<>>
                  /\ lastErr' = "none" =>
                         /\ Len(t.acc) >= 2
                         /\ t.acc[1] = <<0, Len(data)>>
                         /\ t.acc[2] = <<Len(data) - 1, Len(data)>>
                         /\ \A i \in 3..Len(t.acc) : t.acc[i][2] = Len(data) - 1
                  /\ Len(data) = 1 =>
                         (t.acc = <<<<0, 1>>, <<0, 1>>>> /\ t.visits = <<>>)
       /\ (pc = "live" /\ lastOp' = "peek") =>
              LET t == peekTrace(kind, data)
              IN  /\ TraceAgrees
                  /\ InBounds(t)
                  /\ t.acc = IF lastErr' = "none" THEN <<<<0, Len(data)>>>> ELSE <<>>]_vars

\* a heap drained by its third dequeue, which ran on a one-element vector
C20_Witness ==
    /\ kind = "min" /\ lastOp = "dequeue" /\ lastErr = "none" /\ empty(data)
    /\ nEnq = 3 /\ nDeq = 3

====
